---------------------------- MODULE Spec2Model ----------------------------
(* Model of the MLX90381 UART bridge UI (src/MLX90381/ui/main.py):         *)
(* the field map over 16-bit words, the serial worker and its read loop,   *)
(* the line decoder, and the main window's handlers.                       *)
EXTENDS Integers, Sequences, FiniteSets, TLC

VARIABLES
    reg_words,       \* MainWindow.reg_words: dict addr -> word
    mtp_words,       \* MainWindow.mtp_words: dict addr -> word
    calls,           \* field-map harness: the calls made so far, oldest first
    _connected,      \* MainWindow._connected
    _reg_read,       \* MainWindow._reg_read
    _mtp_read,       \* MainWindow._mtp_read
    connect_btn,     \* text of MainWindow.connect_btn
    actions_enabled, \* enabled state of ident/read/measure/lock buttons
    prog_reg_btn,    \* enabled state of MainWindow.prog_reg_btn
    prog_mtp_btn,    \* enabled state of MainWindow.prog_mtp_btn
    reg_table,       \* DEC column of MainWindow.reg_table, rows 0..7
    mtp_table,       \* DEC column of MainWindow.mtp_table, rows 0..15
    dialog,          \* the modal prompt program_mtp is blocked in, or "none"
    words8,          \* program_mtp's local words8 while it runs
    answered,        \* the prompts of the current program_mtp answered Yes
    _ser,            \* SerialWorker._ser: None or the open port
    _running,        \* SerialWorker._running
    thread,          \* the worker QThread: "stopped" or "running"
    buf,             \* run()'s local buf
    queue,           \* queued signal deliveries to the main window, oldest first
    sent,            \* the bytes handed to the port's write() by the latest step
    handler,         \* the handler the latest step ran, where recorded
    delivered,       \* the line the latest step handed to on_line_rx, if any
    stream,          \* stream harness: the bytes the port receives in all
    rd,              \* stream harness: <<from, to>>, the latest read returned
                     \* stream[from+1..to]
    window           \* the main window: "open", "closed", or "waiting" in wait()

fieldVars == <<reg_words, mtp_words>>

guiVars ==
    <<_connected, _reg_read, _mtp_read, connect_btn, actions_enabled,
      prog_reg_btn, prog_mtp_btn>>

tableVars == <<reg_table, mtp_table>>

mtpRunVars == <<dialog, words8, answered>>

workerVars == <<_ser, _running, thread, buf>>

portVars == <<stream, rd>>

sessionVars ==
    <<guiVars, tableVars, mtpRunVars, workerVars, queue, sent, handler, delivered,
      rd, window>>

vars == <<fieldVars, calls, stream, sessionVars>>

-----------------------------------------------------------------------------
(* Python values *)

\* Python's None, kept apart from every non-negative integer.
None == -1

\* An empty dict ({}): the function with the empty domain.
EmptyDict == <<>>

\* dict.get(addr, 0)
DictGet(words, addr) ==
    IF addr \in DOMAIN words THEN words[addr] ELSE 0

\* words[addr] = w
DictSet(words, addr, w) ==
    [a \in (DOMAIN words) \cup {addr} |-> IF a = addr THEN w ELSE words[a]]

Pow2(n) == 2 ^ n

\* a & b on non-negative integers
RECURSIVE BitAnd(_, _)
BitAnd(a, b) ==
    IF a = 0 \/ b = 0 THEN 0
    ELSE (a % 2) * (b % 2) + 2 * BitAnd(a \div 2, b \div 2)

\* a | b on non-negative integers
BitOr(a, b) == a + b - BitAnd(a, b)

\* a & ~m for non-negative a and m (Python's ~m is -m-1 in two's complement)
BitAndNot(a, m) == a - BitAnd(a, m)

\* a << n
Shl(a, n) == a * Pow2(n)

\* a >> n
Shr(a, n) == a \div Pow2(n)

-----------------------------------------------------------------------------
(* Field specifications *)

FieldSpec(name, reg_addr, mtp_addr, byte_sel, lsb, width) ==
    [name |-> name, reg_addr |-> reg_addr, mtp_addr |-> mtp_addr,
     byte_sel |-> byte_sel, lsb |-> lsb, width |-> width]

\* A table whose AXIS_CH2 starts one bit too low, inside AXIS_CH1.
FIELD_SPECS_overlap == <<
    FieldSpec("RG_X",        32,   0,  "LSB", 0, 3),
    FieldSpec("FG_X",        32,   0,  "LSB", 3, 5),
    FieldSpec("RG_Y",        34,   2,  "LSB", 0, 3),
    FieldSpec("FG_Y",        34,   2,  "LSB", 3, 5),
    FieldSpec("RG_Z",        36,   4,  "LSB", 0, 3),
    FieldSpec("FG_Z",        36,   4,  "LSB", 3, 5),
    FieldSpec("VOQ_OUT1",    32,   0,  "MSB", 0, 4),
    FieldSpec("VOQ_OUT2",    34,   2,  "MSB", 0, 4),
    FieldSpec("AXIS_CH1",    38,   6,  "LSB", 0, 2),
    FieldSpec("AXIS_CH2",    38,   6,  "LSB", 1, 2),
    FieldSpec("PLATEZ",      38,   6,  "LSB", 4, 2),
    FieldSpec("TC",          40,   8,  "LSB", 0, 5),
    FieldSpec("FILT",        42,   10, "LSB", 0, 5),
    FieldSpec("DIS_DIAG",    None, 12, "LSB", 1, 1),
    FieldSpec("MEMLOCK",     None, 12, "LSB", 0, 1),
    FieldSpec("TC350_DATA",  None, 14, "LSB", 0, 4),
    FieldSpec("TC2000_DATA", None, 20, "MSB", 4, 4),
    FieldSpec("CHIP_ID1",    None, 26, "LSB", 0, 8),
    FieldSpec("CHIP_ID2",    None, 28, "LSB", 0, 8),
    FieldSpec("CHIP_ID3",    None, 30, "LSB", 0, 8) >>

FIELD_SPECS == <<
    FieldSpec("RG_X",        32,   0,  "LSB", 0, 3),
    FieldSpec("FG_X",        32,   0,  "LSB", 3, 5),
    FieldSpec("RG_Y",        34,   2,  "LSB", 0, 3),
    FieldSpec("FG_Y",        34,   2,  "LSB", 3, 5),
    FieldSpec("RG_Z",        36,   4,  "LSB", 0, 3),
    FieldSpec("FG_Z",        36,   4,  "LSB", 3, 5),
    FieldSpec("VOQ_OUT1",    32,   0,  "MSB", 0, 4),
    FieldSpec("VOQ_OUT2",    34,   2,  "MSB", 0, 4),
    FieldSpec("AXIS_CH1",    38,   6,  "LSB", 0, 2),
    FieldSpec("AXIS_CH2",    38,   6,  "LSB", 2, 2),
    FieldSpec("PLATEZ",      38,   6,  "LSB", 4, 2),
    FieldSpec("TC",          40,   8,  "LSB", 0, 5),
    FieldSpec("FILT",        42,   10, "LSB", 0, 5),
    FieldSpec("DIS_DIAG",    None, 12, "LSB", 1, 1),
    FieldSpec("MEMLOCK",     None, 12, "LSB", 0, 1),
    FieldSpec("TC350_DATA",  None, 14, "LSB", 0, 4),
    FieldSpec("TC2000_DATA", None, 20, "MSB", 4, 4),
    FieldSpec("CHIP_ID1",    None, 26, "LSB", 0, 8),
    FieldSpec("CHIP_ID2",    None, 28, "LSB", 0, 8),
    FieldSpec("CHIP_ID3",    None, 30, "LSB", 0, 8) >>

Rows == 1..Len(FIELD_SPECS)

_get_byte(word, byte_sel) ==
    LET w == BitAnd(word, 65535)
    IN  IF byte_sel = "LSB" THEN BitAnd(w, 255) ELSE BitAnd(Shr(w, 8), 255)

\* A write that drops the other byte of the word.
_set_byte_clobber(word, byte_sel, byte_val) ==
    LET b == BitAnd(byte_val, 255)
    IN  IF byte_sel = "LSB" THEN b ELSE Shl(b, 8)

_set_byte(word, byte_sel, byte_val) ==
    LET w == BitAnd(word, 65535)
        b == BitAnd(byte_val, 255)
    IN  IF byte_sel = "LSB"
        THEN BitOr(BitAnd(w, 65280), b)
        ELSE BitOr(BitAnd(w, 255), Shl(b, 8))

\* Returns None if addr is None.
get_field_at(words, addr, spec) ==
    IF addr = None THEN None
    ELSE LET w    == BitAnd(DictGet(words, addr), 65535)
             b    == _get_byte(w, spec.byte_sel)
             mask == Shl(1, spec.width) - 1
         IN  BitAnd(Shr(b, spec.lsb), mask)

get_reg_field(words, spec) == get_field_at(words, spec.reg_addr, spec)

get_mtp_field(words, spec) == get_field_at(words, spec.mtp_addr, spec)

\* set_field_at mutates the dict and returns a bool: the pair is modelled as
\* [ok |-> the returned bool, words |-> the dict afterwards].

\* A write that forgets to mask the value to the field's width.
set_field_at_nomask(words, addr, spec, value) ==
    IF addr = None THEN [ok |-> FALSE, words |-> words]
    ELSE LET mask == Shl(1, spec.width) - 1
             w    == BitAnd(DictGet(words, addr), 65535)
             b    == _get_byte(w, spec.byte_sel)
             b2   == BitOr(BitAndNot(b, Shl(mask, spec.lsb)), Shl(value, spec.lsb))
             w2   == _set_byte(w, spec.byte_sel, b2)
         IN  [ok |-> TRUE, words |-> DictSet(words, addr, BitAnd(w2, 65535))]

\* A write that ORs the value in without clearing the field first.
set_field_at_noclear(words, addr, spec, value) ==
    IF addr = None THEN [ok |-> FALSE, words |-> words]
    ELSE LET mask == Shl(1, spec.width) - 1
             v    == BitAnd(value, mask)
             w    == BitAnd(DictGet(words, addr), 65535)
             b    == _get_byte(w, spec.byte_sel)
             b2   == BitOr(b, Shl(v, spec.lsb))
             w2   == _set_byte(w, spec.byte_sel, b2)
         IN  [ok |-> TRUE, words |-> DictSet(words, addr, BitAnd(w2, 65535))]

\* A write that stores at address 0 when the field has no address.
set_field_at_noaddr(words, addr, spec, value) ==
    LET a    == IF addr = None THEN 0 ELSE addr
        mask == Shl(1, spec.width) - 1
        v    == BitAnd(value, mask)
        w    == BitAnd(DictGet(words, a), 65535)
        b    == _get_byte(w, spec.byte_sel)
        b2   == BitOr(BitAndNot(b, Shl(mask, spec.lsb)), Shl(v, spec.lsb))
        w2   == _set_byte(w, spec.byte_sel, b2)
    IN  [ok |-> TRUE, words |-> DictSet(words, a, BitAnd(w2, 65535))]

set_field_at(words, addr, spec, value) ==
    IF addr = None THEN [ok |-> FALSE, words |-> words]
    ELSE LET mask == Shl(1, spec.width) - 1
             v    == BitAnd(value, mask)
             w    == BitAnd(DictGet(words, addr), 65535)
             b    == _get_byte(w, spec.byte_sel)
             b2   == BitOr(BitAndNot(b, Shl(mask, spec.lsb)), Shl(v, spec.lsb))
             w2   == _set_byte(w, spec.byte_sel, b2)
         IN  [ok |-> TRUE, words |-> DictSet(words, addr, BitAnd(w2, 65535))]

set_reg_field(words, spec, value) == set_field_at(words, spec.reg_addr, spec, value)

set_mtp_field(words, spec, value) == set_field_at(words, spec.mtp_addr, spec, value)

-----------------------------------------------------------------------------
(* Text: a str or bytes value is the sequence of its characters *)

Digits == {"0", "1", "2", "3", "4", "5", "6", "7", "8", "9"}

HexDigits ==
    Digits \cup {"A", "B", "C", "D", "E", "F", "a", "b", "c", "d", "e", "f"}

\* The characters \s matches and str.strip() removes, of those modelled.
Whitespace == {" ", "\t", "\r", "\n"}

\* The value of one digit character in int(text, 16).
HexVal(c) ==
    CASE c = "0" -> 0 [] c = "1" -> 1 [] c = "2" -> 2 [] c = "3" -> 3
      [] c = "4" -> 4 [] c = "5" -> 5 [] c = "6" -> 6 [] c = "7" -> 7
      [] c = "8" -> 8 [] c = "9" -> 9
      [] c \in {"A", "a"} -> 10 [] c \in {"B", "b"} -> 11
      [] c \in {"C", "c"} -> 12 [] c \in {"D", "d"} -> 13
      [] c \in {"E", "e"} -> 14 [] c \in {"F", "f"} -> 15

DigitChar(d) == <<"0", "1", "2", "3", "4", "5", "6", "7", "8", "9">>[d + 1]

\* str.upper() on one character, for re.IGNORECASE on the letters of OUT.
Upper(c) ==
    CASE c = "o" -> "O" [] c = "u" -> "U" [] c = "t" -> "T" [] OTHER -> c

\* s[i:j] with 1-based i and exclusive j.
Slice(s, i, j) == SubSeq(s, i, j - 1)

\* int(text, base) of a text of digits of that base.
RECURSIVE IntOf(_, _)
IntOf(text, base) ==
    IF text = <<>> THEN 0
    ELSE IntOf(SubSeq(text, 1, Len(text) - 1), base) * base + HexVal(text[Len(text)])

\* str(n) for n >= 0.
RECURSIVE Str(_)
Str(n) ==
    IF n < 10 THEN <<DigitChar(n)>> ELSE Str(n \div 10) \o <<DigitChar(n % 10)>>

\* str.strip()
RECURSIVE Strip(_)
Strip(s) ==
    IF s = <<>> THEN s
    ELSE IF s[1] \in Whitespace THEN Strip(Tail(s))
    ELSE IF s[Len(s)] \in Whitespace THEN Strip(SubSeq(s, 1, Len(s) - 1))
    ELSE s

\* int(txt, 10) under try/except ValueError: [ok, val]. Texts with a sign or
\* with underscores are not among the drawn inputs.
ParseInt10(txt) ==
    LET t == Strip(txt)
    IN  IF t # <<>> /\ \A i \in 1..Len(t) : t[i] \in Digits
        THEN [ok |-> TRUE, val |-> IntOf(t, 10)]
        ELSE [ok |-> FALSE, val |-> 0]

\* The first position >= i of s holding a character outside set (Len(s)+1 if none).
RECURSIVE SpanEnd(_, _, _)
SpanEnd(s, i, set) ==
    IF i > Len(s) \/ s[i] \notin set THEN i ELSE SpanEnd(s, i + 1, set)

\* Whether s holds the literal lit at position i, ignoring case.
LitAt(s, i, lit) ==
    /\ i + Len(lit) - 1 <= Len(s)
    /\ \A k \in 1..Len(lit) : Upper(s[i + k - 1]) = lit[k]

-----------------------------------------------------------------------------
(* Parsing helpers *)

\* HEX_PAIR_RE matched at position i: ([0-9A-Fa-f]+)\s+([0-9A-Fa-f]+).
\* Each + is greedy; a shorter first group or whitespace run would be
\* followed by a character of its own class, so backtracking finds nothing.
HexPairAt(s, i) ==
    LET j == SpanEnd(s, i, HexDigits)
        k == SpanEnd(s, j, Whitespace)
        l == SpanEnd(s, k, HexDigits)
    IN  IF j > i /\ k > j /\ l > k
        THEN [ok |-> TRUE, end |-> l,
              addr |-> IntOf(Slice(s, i, j), 16), word |-> IntOf(Slice(s, k, l), 16)]
        ELSE [ok |-> FALSE, end |-> i, addr |-> 0, word |-> 0]

\* HEX_PAIR_RE.finditer(line) from position i on: the (addr, word) pairs of
\* the non-overlapping matches, left to right.
RECURSIVE HexPairsFrom(_, _)
HexPairsFrom(s, i) ==
    IF i > Len(s) THEN <<>>
    ELSE LET m == HexPairAt(s, i)
         IN  IF m.ok THEN <<<<m.addr, m.word>>>> \o HexPairsFrom(s, m.end)
             ELSE HexPairsFrom(s, i + 1)

parse_hex_pairs_line(line) == HexPairsFrom(line, 1)

\* MEAS_RE matched at position i: OUT1\s+(\d+)\s+OUT2\s+(\d+), IGNORECASE.
MeasAt(s, i) ==
    LET a == i + 4
        b == SpanEnd(s, a, Whitespace)
        c == SpanEnd(s, b, Digits)
        d == SpanEnd(s, c, Whitespace)
        e == d + 4
        f == SpanEnd(s, e, Whitespace)
        g == SpanEnd(s, f, Digits)
    IN  IF /\ LitAt(s, i, <<"O", "U", "T", "1">>) /\ b > a /\ c > b /\ d > c
           /\ LitAt(s, d, <<"O", "U", "T", "2">>) /\ f > e /\ g > f
        THEN [ok |-> TRUE, out1 |-> IntOf(Slice(s, b, c), 10),
              out2 |-> IntOf(Slice(s, f, g), 10)]
        ELSE [ok |-> FALSE, out1 |-> 0, out2 |-> 0]

\* MEAS_RE.search(line) from position i on: the leftmost match.
RECURSIVE MeasSearch(_, _)
MeasSearch(s, i) ==
    IF i > Len(s) THEN [ok |-> FALSE, out1 |-> 0, out2 |-> 0]
    ELSE LET m == MeasAt(s, i)
         IN  IF m.ok THEN m ELSE MeasSearch(s, i + 1)

\* A parser that never recognises a measurement.
parse_measurement_never(line) == [ok |-> FALSE, out1 |-> 0, out2 |-> 0]

\* Returns [ok |-> FALSE, ...] for None.
parse_measurement(line) == MeasSearch(line, 1)

\* f"{int(w):5d}": right-justified in 5 columns, longer if it does not fit.
Format5d(w) ==
    LET t == Str(w)
    IN  IF Len(t) >= 5 THEN t ELSE [i \in 1..(5 - Len(t)) |-> " "] \o t

\* s.encode("ascii", errors="ignore"): every modelled character is ASCII
\* but the replacement character, which is dropped.
Encode(s) == SelectSeq(s, LAMBDA c : c # "?")

\* line_bytes.decode("utf-8", errors="replace"): ASCII bytes decode to themselves.
Decode(b) == b

-----------------------------------------------------------------------------
(* Session state: the main window, the serial worker, the signal queue *)

\* Queued deliveries that may be pending at once.
MaxQueue == 2

ConnEv(ok, msg) == [sig |-> "conn_state", ok |-> ok, msg |-> msg, line |-> <<>>]

LineEv(line) == [sig |-> "line_rx", ok |-> TRUE, msg |-> "", line |-> line]

\* _refresh_tables_from_state, DEC column of reg_table
RefreshRegTable(words) == [i \in 1..8 |-> Str(DictGet(words, 32 + 2 * (i - 1)))]

\* _refresh_tables_from_state, DEC column of mtp_table
RefreshMtpTable(words) == [i \in 1..16 |-> Str(DictGet(words, 2 * (i - 1)))]

\* SerialWorker._ser when it is None (an open port is known by its name).
NoSerial == "None"

\* State after MainWindow.__init__ (SerialWorker.__init__, _init_tables).
InitSession ==
    /\ _connected = FALSE
    /\ _reg_read = FALSE
    /\ _mtp_read = FALSE
    /\ connect_btn = "Connect"
    /\ actions_enabled = FALSE
    /\ prog_reg_btn = FALSE
    /\ prog_mtp_btn = FALSE
    /\ reg_table = [i \in 1..8 |-> <<"0">>]
    /\ mtp_table = [i \in 1..16 |-> <<"0">>]
    /\ dialog = "none"
    /\ words8 = <<>>
    /\ answered = {}
    /\ _ser = NoSerial
    /\ _running = FALSE
    /\ thread = "stopped"
    /\ buf = <<>>
    /\ queue = <<>>
    /\ sent = <<>>
    /\ handler = "-"
    /\ delivered = <<>>
    /\ rd = <<0, 0>>
    /\ window = "open"

Init ==
    /\ reg_words = EmptyDict
    /\ mtp_words = EmptyDict
    /\ calls = <<>>
    /\ stream = <<>>
    /\ InitSession

\* The handlers whose steps are recorded even when they write no bytes.
Recorded == {"program_registers", "program_mtp", "on_decoded_cell_changed",
             "_on_sensing_mode_selected", "_copy_reg_to_mtp"}

\* What every step records: the bytes it wrote and, when it wrote any or is a
\* step of a programming or editing handler, the handler it ran.
Ran(name, bytes) ==
    /\ sent' = bytes
    /\ delivered' = <<>>
    /\ handler' = IF bytes # <<>> \/ name \in Recorded THEN name ELSE "-"

\* program_mtp's locals are gone once it has returned.
MtpRunOver == dialog' = "none" /\ words8' = <<>> /\ answered' = {}

\* A handler started by the user in the main window: no modal prompt is open.
MainWindowInput == dialog = "none" /\ window = "open"

\* A queued signal is delivered by the event loop, which ends with the window.
EventLoop == window = "open"

-----------------------------------------------------------------------------
(* SerialWorker *)

is_connected == _ser # NoSerial /\ _running

\* The methods below write to the port and emit conn_state: they take and
\* return io = [sent |-> bytes written so far, queue |-> the signal queue].

\* fail: the port's write() raises.
send_bytes(io, b, fail) ==
    IF _ser = NoSerial THEN io
    ELSE [sent  |-> io.sent \o b,
          queue |-> IF fail THEN Append(io.queue, ConnEv(FALSE, "Write failed"))
                    ELSE io.queue]

send_text(io, s, fail) == send_bytes(io, Encode(s), fail)

\* The first position >= i of s holding c, or 0 (b"\n" in buf).
RECURSIVE Find(_, _, _)
Find(s, i, c) ==
    IF i > Len(s) THEN 0 ELSE IF s[i] = c THEN i ELSE Find(s, i + 1, c)

\* An inner loop that strips every trailing \r of a line.
RECURSIVE SplitLines_rstrip(_)
SplitLines_rstrip(b) ==
    LET n == Find(b, 1, "\n")
        RECURSIVE NoCr(_)
        NoCr(t) == IF t # <<>> /\ t[Len(t)] = "\r" THEN NoCr(SubSeq(t, 1, Len(t) - 1)) ELSE t
    IN  IF n = 0 THEN [lines |-> <<>>, rest |-> b]
        ELSE LET more == SplitLines_rstrip(SubSeq(b, n + 1, Len(b)))
             IN  [lines |-> <<NoCr(Slice(b, 1, n))>> \o more.lines, rest |-> more.rest]

\* run()'s inner while loop on buf: [lines |-> the complete lines, each
\* without its newline and one trailing \r, rest |-> what follows the last
\* newline].
RECURSIVE SplitLines(_)
SplitLines(b) ==
    LET n == Find(b, 1, "\n")
    IN  IF n = 0 THEN [lines |-> <<>>, rest |-> b]
        ELSE LET raw  == Slice(b, 1, n)
                 line == IF raw # <<>> /\ raw[Len(raw)] = "\r"
                         THEN SubSeq(raw, 1, Len(raw) - 1) ELSE raw
                 more == SplitLines(SubSeq(b, n + 1, Len(b)))
             IN  [lines |-> <<line>> \o more.lines, rest |-> more.rest]

\* Every step but program_mtp's own: its locals stay while it is blocked in a
\* prompt and are gone after it has returned.
MtpLocals ==
    IF dialog = "none" THEN MtpRunOver ELSE UNCHANGED mtpRunVars

\* The port the user has selected.
Port == "COM3"

\* QThread.wait(1000) on the worker thread, after _running was set to flag:
\* the state of the thread afterwards. A loop iteration lasts no longer than
\* the 0.1 s read timeout, so a loop told to stop has ended when the wait is
\* over; a loop not told to stop outlasts it.
wait(flag) == IF thread = "running" /\ ~flag THEN "stopped" ELSE thread

\* An open that waits for a running loop without telling it to stop.
open_keeps_loop(can_open) ==
    LET joined == IF thread = "running" THEN wait(_running) ELSE thread
    IN  /\ Len(queue) < MaxQueue
        /\ IF can_open
           THEN /\ _ser' = Port
                /\ _running' = TRUE
                /\ thread' = "running"
                /\ buf' = IF joined = "running" THEN buf ELSE <<>>
                /\ queue' = Append(queue, ConnEv(TRUE, "Connected"))
           ELSE /\ _ser' = NoSerial
                /\ _running' = FALSE
                /\ thread' = joined
                /\ buf' = IF joined = "running" THEN buf ELSE <<>>
                /\ queue' = Append(queue, ConnEv(FALSE, "Connect failed"))

\* An open that on failure leaves the worker as it found it.
open_fail_keeps(can_open) ==
    LET joined == IF thread = "running" THEN wait(FALSE) ELSE thread
    IN  /\ Len(queue) < MaxQueue
        /\ IF can_open
           THEN /\ _ser' = Port
                /\ _running' = TRUE
                /\ thread' = "running"
                /\ buf' = IF joined = "running" THEN buf ELSE <<>>
                /\ queue' = Append(queue, ConnEv(TRUE, "Connected"))
           ELSE /\ UNCHANGED workerVars
                /\ queue' = Append(queue, ConnEv(FALSE, "Connect failed"))

\* SerialWorker.open: a running thread is told to stop and waited for, an
\* open port is closed, then serial.Serial opens the port (can_open) and
\* start() starts the thread, which does nothing on a thread still running,
\* or serial.Serial raises. run()'s local buf is new with each started loop.
open(can_open) ==
    LET joined == IF thread = "running" THEN wait(FALSE) ELSE thread
    IN  /\ Len(queue) < MaxQueue
        /\ IF can_open
           THEN /\ _ser' = Port
                /\ _running' = TRUE
                /\ thread' = "running"
                /\ buf' = IF joined = "running" THEN buf ELSE <<>>
                /\ queue' = Append(queue, ConnEv(TRUE, "Connected"))
           ELSE /\ _ser' = NoSerial
                /\ _running' = FALSE
                /\ thread' = joined
                /\ buf' = IF joined = "running" THEN buf ELSE <<>>
                /\ queue' = Append(queue, ConnEv(FALSE, "Connect failed"))

\* A close that does not wait for the loop to end.
close_nojoin ==
    /\ Len(queue) < MaxQueue
    /\ _running' = FALSE
    /\ thread' = thread
    /\ buf' = buf
    /\ _ser' = NoSerial
    /\ queue' = Append(queue, ConnEv(FALSE, "Disconnected"))

\* A close that leaves the port open.
close_keeps_port ==
    /\ Len(queue) < MaxQueue
    /\ _running' = FALSE
    /\ thread' = wait(FALSE)
    /\ buf' = IF wait(FALSE) = "running" THEN buf ELSE <<>>
    /\ _ser' = _ser
    /\ queue' = Append(queue, ConnEv(FALSE, "Disconnected"))

\* SerialWorker.close: the thread is told to stop and waited for, the port
\* closed if there is one.
close ==
    /\ Len(queue) < MaxQueue
    /\ _running' = FALSE
    /\ thread' = wait(FALSE)
    /\ buf' = IF wait(FALSE) = "running" THEN buf ELSE <<>>
    /\ _ser' = NoSerial
    /\ queue' = Append(queue, ConnEv(FALSE, "Disconnected"))

\* The chunks a read of the port may return when the device answers a whole
\* line at a time: the identification, a measurement, a register dump with a
\* word over 16 bits, and a dump with an address given twice and an address
\* over 16 bits, and a line that is none of these. A read that times out
\* with no bytes changes nothing and is left to stuttering.
Chunks == {
    <<"9", "0", "3", "8", "1", "\r", "\n">>,
    <<"O", "U", "T", "1", " ", "1", "2", "0", " ", "O", "U", "T", "2", " ", "3", "4", "0", "\n">>,
    <<"2", "0", " ", "1", "2", "3", "4", " ", "2", "2", " ", "1", "F", "F", "F", "F", " ",
      "2", "4", " ", "7", " ", "2", "6", " ", "6", "3", " ", "2", "8", " ", "1", "0", "0", "\n">>,
    <<"0", "C", " ", "0", " ", "1", "0", "0", "2", "0", " ", "5", " ", "0", "c", " ", "1", "\n">>,
    <<"O", "K", "\r", "\n">> }

\* Bytes run() may be left holding in buf after a read.
MaxBuf == 3

\* A loop whose thread stores the first pair of a line itself, as a slot
\* connected directly would.
run_direct(chunk) ==
    /\ thread = "running"
    /\ _running
    /\ IF _ser = NoSerial \/ chunk = <<>>
       THEN UNCHANGED <<buf, queue, fieldVars>>
       ELSE LET r == SplitLines(buf \o chunk)
                pairs == IF r.lines = <<>> THEN <<>>
                         ELSE parse_hex_pairs_line(Decode(r.lines[1]))
            IN  /\ Len(r.rest) <= MaxBuf
                /\ Len(queue) + Len(r.lines) <= MaxQueue
                /\ buf' = r.rest
                /\ queue' = queue \o [i \in 1..Len(r.lines) |-> LineEv(Decode(r.lines[i]))]
                /\ reg_words' = IF pairs # <<>> /\ pairs[1][1] >= 32
                                THEN DictSet(reg_words, pairs[1][1], BitAnd(pairs[1][2], 65535))
                                ELSE reg_words
                /\ UNCHANGED mtp_words
    /\ Ran("run", <<>>)
    /\ MtpLocals
    /\ UNCHANGED <<calls, stream, window, guiVars, tableVars, _ser, _running, thread>>

\* One iteration of run()'s loop that reads chunk from the port.
run(chunk) ==
    /\ thread = "running"
    /\ _running
    /\ IF _ser = NoSerial \/ chunk = <<>>
       THEN UNCHANGED <<buf, queue>>
       ELSE LET r == SplitLines(buf \o chunk)
            IN  /\ Len(r.rest) <= MaxBuf
                /\ Len(queue) + Len(r.lines) <= MaxQueue
                /\ buf' = r.rest
                /\ queue' = queue \o [i \in 1..Len(r.lines) |-> LineEv(Decode(r.lines[i]))]
    /\ Ran("run", <<>>)
    /\ MtpLocals
    /\ UNCHANGED <<fieldVars, calls, stream, window, guiVars, tableVars, _ser, _running,
                   thread>>

\* A failed read that is reported and retried.
run_read_fails_retry ==
    /\ thread = "running"
    /\ _running
    /\ _ser # NoSerial
    /\ Len(queue) < MaxQueue
    /\ queue' = Append(queue, ConnEv(FALSE, "Serial read failed"))
    /\ Ran("run", <<>>)
    /\ MtpLocals
    /\ UNCHANGED <<fieldVars, calls, portVars, window, guiVars, tableVars, workerVars>>

\* The iteration of run()'s loop in which the read raises.
run_read_fails ==
    /\ thread = "running"
    /\ _running
    /\ _ser # NoSerial
    /\ Len(queue) < MaxQueue
    /\ queue' = Append(queue, ConnEv(FALSE, "Serial read failed"))
    /\ _running' = FALSE
    /\ thread' = "stopped"
    /\ buf' = <<>>
    /\ Ran("run", <<>>)
    /\ MtpLocals
    /\ UNCHANGED <<fieldVars, calls, portVars, window, guiVars, tableVars, _ser>>

-----------------------------------------------------------------------------
(* MainWindow *)

\* toggle_connect with no port selected: a warning box, nothing else.
toggle_connect_no_port ==
    /\ MainWindowInput
    /\ connect_btn = "Connect"
    /\ Ran("toggle_connect", <<>>)
    /\ MtpRunOver
    /\ UNCHANGED <<fieldVars, calls, portVars, window, guiVars, tableVars, workerVars, queue>>

toggle_connect(can_open) ==
    /\ MainWindowInput
    /\ IF connect_btn = "Connect" THEN open(can_open) ELSE close
    /\ Ran("toggle_connect", <<>>)
    /\ MtpRunOver
    /\ UNCHANGED <<fieldVars, calls, portVars, window, guiVars, tableVars>>

send_cmd(io, c, fail) ==
    IF Len(c) # 1 THEN io
    ELSE IF ~is_connected THEN io
    ELSE send_text(io, c, fail)

\* A handler's writes take effect: the bytes written, the signals emitted.
Wrote(name, io) ==
    /\ Len(io.queue) <= MaxQueue
    /\ queue' = io.queue
    /\ Ran(name, io.sent)

\* The Identify and Measure buttons: send_cmd("I"), send_cmd("M").
command_button(c, fail) ==
    /\ MainWindowInput
    /\ actions_enabled
    /\ Wrote("send_cmd", send_cmd([sent |-> <<>>, queue |-> queue], <<c>>, fail))
    /\ MtpRunOver
    /\ UNCHANGED <<fieldVars, calls, portVars, window, guiVars, tableVars, workerVars>>

_read_registers(fail) ==
    /\ MainWindowInput
    /\ actions_enabled
    /\ _reg_read' = TRUE
    /\ prog_reg_btn' = (_connected /\ _reg_read')
    /\ prog_mtp_btn' = (_connected /\ _mtp_read)
    /\ Wrote("_read_registers", send_cmd([sent |-> <<>>, queue |-> queue], <<"C">>, fail))
    /\ MtpRunOver
    /\ UNCHANGED <<fieldVars, calls, portVars, window, _connected, _mtp_read,
                   connect_btn, actions_enabled,
                   tableVars, workerVars>>

_read_mtp(fail) ==
    /\ MainWindowInput
    /\ actions_enabled
    /\ _mtp_read' = TRUE
    /\ prog_reg_btn' = (_connected /\ _reg_read)
    /\ prog_mtp_btn' = (_connected /\ _mtp_read')
    /\ Wrote("_read_mtp", send_cmd([sent |-> <<>>, queue |-> queue], <<"R">>, fail))
    /\ MtpRunOver
    /\ UNCHANGED <<fieldVars, calls, portVars, window, _connected, _reg_read,
                   connect_btn, actions_enabled,
                   tableVars, workerVars>>

\* An on_conn_state that leaves the read flags alone.
on_conn_state_keeps_flags ==
    /\ EventLoop
    /\ queue # <<>>
    /\ Head(queue).sig = "conn_state"
    /\ LET ok == Head(queue).ok
       IN  /\ connect_btn' = IF ok THEN "Disconnect" ELSE "Connect"
           /\ _connected' = ok
           /\ UNCHANGED <<_reg_read, _mtp_read>>
           /\ actions_enabled' = ok
           /\ prog_reg_btn' = (_connected' /\ _reg_read')
           /\ prog_mtp_btn' = (_connected' /\ _mtp_read')
    /\ queue' = Tail(queue)
    /\ Ran("on_conn_state", <<>>)
    /\ MtpLocals
    /\ UNCHANGED <<fieldVars, calls, portVars, window, tableVars, workerVars>>

\* An on_conn_state that also forgets both dicts when the session ends.
on_conn_state_forgets ==
    /\ EventLoop
    /\ queue # <<>>
    /\ Head(queue).sig = "conn_state"
    /\ LET ok == Head(queue).ok
       IN  /\ connect_btn' = IF ok THEN "Disconnect" ELSE "Connect"
           /\ _connected' = ok
           /\ _reg_read' = IF ok THEN _reg_read ELSE FALSE
           /\ _mtp_read' = IF ok THEN _mtp_read ELSE FALSE
           /\ actions_enabled' = ok
           /\ prog_reg_btn' = (_connected' /\ _reg_read')
           /\ prog_mtp_btn' = (_connected' /\ _mtp_read')
           /\ reg_words' = IF ok THEN reg_words ELSE EmptyDict
           /\ mtp_words' = IF ok THEN mtp_words ELSE EmptyDict
    /\ queue' = Tail(queue)
    /\ Ran("on_conn_state", <<>>)
    /\ MtpLocals
    /\ UNCHANGED <<calls, portVars, window, tableVars, workerVars>>

\* on_conn_state, with _set_actions_enabled and _update_program_buttons.
on_conn_state ==
    /\ EventLoop
    /\ queue # <<>>
    /\ Head(queue).sig = "conn_state"
    /\ LET ok == Head(queue).ok
       IN  /\ connect_btn' = IF ok THEN "Disconnect" ELSE "Connect"
           /\ _connected' = ok
           /\ _reg_read' = IF ok THEN _reg_read ELSE FALSE
           /\ _mtp_read' = IF ok THEN _mtp_read ELSE FALSE
           /\ actions_enabled' = ok
           /\ prog_reg_btn' = (_connected' /\ _reg_read')
           /\ prog_mtp_btn' = (_connected' /\ _mtp_read')
    /\ queue' = Tail(queue)
    /\ Ran("on_conn_state", <<>>)
    /\ MtpLocals
    /\ UNCHANGED <<fieldVars, calls, portVars, window, tableVars, workerVars>>

\* A loop that routes address 0x20 itself to the MTP space.
RECURSIVE StorePairs_above(_, _, _)
StorePairs_above(pairs, reg, mtp) ==
    IF pairs = <<>> THEN [reg |-> reg, mtp |-> mtp]
    ELSE LET addr == pairs[1][1]
             word == pairs[1][2]
         IN  IF addr > 32
             THEN StorePairs_above(Tail(pairs), DictSet(reg, addr, BitAnd(word, 65535)), mtp)
             ELSE StorePairs_above(Tail(pairs), reg, DictSet(mtp, addr, BitAnd(word, 65535)))

\* The loop of on_line_rx over the decoded pairs: [reg, mtp] afterwards.
RECURSIVE StorePairs(_, _, _)
StorePairs(pairs, reg, mtp) ==
    IF pairs = <<>> THEN [reg |-> reg, mtp |-> mtp]
    ELSE LET addr == pairs[1][1]
             word == pairs[1][2]
         IN  IF addr >= 32
             THEN StorePairs(Tail(pairs), DictSet(reg, addr, BitAnd(word, 65535)), mtp)
             ELSE StorePairs(Tail(pairs), reg, DictSet(mtp, addr, BitAnd(word, 65535)))

\* line.strip() == "90381"
IsIdentify(line) == Strip(line) = <<"9", "0", "3", "8", "1">>

\* An on_line_rx that forgets both dicts on a line it cannot decode.
LineEffect_forget(line) ==
    IF IsIdentify(line) THEN [reg |-> reg_words, mtp |-> mtp_words]
    ELSE IF parse_measurement(line).ok THEN [reg |-> reg_words, mtp |-> mtp_words]
    ELSE IF parse_hex_pairs_line(line) = <<>> THEN [reg |-> EmptyDict, mtp |-> EmptyDict]
    ELSE StorePairs(parse_hex_pairs_line(line), reg_words, mtp_words)

\* on_line_rx's effect on the two dicts.
LineEffect(line) ==
    IF IsIdentify(line) THEN [reg |-> reg_words, mtp |-> mtp_words]
    ELSE IF parse_measurement(line).ok THEN [reg |-> reg_words, mtp |-> mtp_words]
    ELSE StorePairs(parse_hex_pairs_line(line), reg_words, mtp_words)

on_line_rx ==
    /\ EventLoop
    /\ queue # <<>>
    /\ Head(queue).sig = "line_rx"
    /\ LET line == Head(queue).line
           pairs == parse_hex_pairs_line(line)
           after == LineEffect(line)
       IN  /\ reg_words' = after.reg
           /\ mtp_words' = after.mtp
           /\ IF ~IsIdentify(line) /\ ~parse_measurement(line).ok /\ pairs # <<>>
              THEN /\ reg_table' = RefreshRegTable(reg_words')
                   /\ mtp_table' = RefreshMtpTable(mtp_words')
              ELSE UNCHANGED tableVars
    /\ queue' = Tail(queue)
    /\ sent' = <<>>
    /\ handler' = "on_line_rx"
    /\ delivered' = Head(queue).line
    /\ MtpLocals
    /\ UNCHANGED <<calls, portVars, window, guiVars, workerVars>>

\* The cells of the decoded table an edit is tried on, (row, col) with
\* col 1 = REG_DEC and col 2 = MTP_DEC, and the texts typed into them.
EditCells == {<<14, 1>>, <<15, 2>>}

EditTexts == {<<"1">>, <<"x">>}

\* The text of a cell parsed as on_decoded_cell_changed does: int(txt, 10),
\* 0 on ValueError, masked to the field's width.
CellValue(txt, spec) ==
    LET r == ParseInt10(txt)
        v == IF r.ok THEN r.val ELSE 0
    IN  BitAnd(v, Shl(1, spec.width) - 1)

\* An edit handler that takes an MTP_DEC edit at any MTP address.
on_decoded_cell_changed_any(row, col, txt) ==
    /\ MainWindowInput
    /\ LET spec == FIELD_SPECS[row]
       IN  IF col = 1 /\ spec.reg_addr # None
           THEN /\ reg_words' = set_reg_field(reg_words, spec, CellValue(txt, spec)).words
                /\ UNCHANGED mtp_words
                /\ reg_table' = RefreshRegTable(reg_words')
                /\ mtp_table' = RefreshMtpTable(mtp_words')
           ELSE IF col = 2
           THEN /\ mtp_words' = set_mtp_field(mtp_words, spec, CellValue(txt, spec)).words
                /\ UNCHANGED reg_words
                /\ reg_table' = RefreshRegTable(reg_words')
                /\ mtp_table' = RefreshMtpTable(mtp_words')
           ELSE UNCHANGED <<fieldVars, tableVars>>
    /\ Ran("on_decoded_cell_changed", <<>>)
    /\ MtpRunOver
    /\ UNCHANGED <<calls, portVars, window, guiVars, workerVars, queue>>

on_decoded_cell_changed(row, col, txt) ==
    /\ MainWindowInput
    /\ LET spec == FIELD_SPECS[row]
       IN  IF col = 1 /\ spec.reg_addr # None
           THEN /\ reg_words' = set_reg_field(reg_words, spec, CellValue(txt, spec)).words
                /\ UNCHANGED mtp_words
                /\ reg_table' = RefreshRegTable(reg_words')
                /\ mtp_table' = RefreshMtpTable(mtp_words')
           ELSE IF col = 2 /\ spec.mtp_addr <= 14
           THEN /\ mtp_words' = set_mtp_field(mtp_words, spec, CellValue(txt, spec)).words
                /\ UNCHANGED reg_words
                /\ reg_table' = RefreshRegTable(reg_words')
                /\ mtp_table' = RefreshMtpTable(mtp_words')
           ELSE UNCHANGED <<fieldVars, tableVars>>
    /\ Ran("on_decoded_cell_changed", <<>>)
    /\ MtpRunOver
    /\ UNCHANGED <<calls, portVars, window, guiVars, workerVars, queue>>

\* MainWindow._sensing_mode_presets: mode name -> (AXIS_CH1, AXIS_CH2, PLATEZ).
_sensing_mode_presets ==
    [m \in {"X/Y mode", "Y/X mode", "X/Z mode", "Z/X mode", "Y/Z mode", "Z/Y mode"} |->
        CASE m = "X/Y mode" -> <<0, 1, 0>>
          [] m = "Y/X mode" -> <<1, 0, 0>>
          [] m = "X/Z mode" -> <<0, 2, 2>>
          [] m = "Z/X mode" -> <<2, 0, 2>>
          [] m = "Y/Z mode" -> <<1, 2, 1>>
          [] m = "Z/Y mode" -> <<2, 1, 1>>]

\* The radio buttons the user is taken to click.
PresetModes == {"X/Y mode", "Z/Y mode"}

\* The for loop of _on_sensing_mode_selected from row i on: the register
\* dict afterwards.
RECURSIVE ApplyPreset(_, _, _)
ApplyPreset(words, i, preset) ==
    IF i > Len(FIELD_SPECS) THEN words
    ELSE LET spec == FIELD_SPECS[i]
             next == IF spec.name = "AXIS_CH1"
                     THEN set_reg_field(words, spec, preset[1]).words
                     ELSE IF spec.name = "AXIS_CH2"
                     THEN set_reg_field(words, spec, preset[2]).words
                     ELSE IF spec.name = "PLATEZ"
                     THEN set_reg_field(words, spec, preset[3]).words
                     ELSE words
         IN  ApplyPreset(next, i + 1, preset)

\* A copy loop that carries the whole register word over instead of the field.
RECURSIVE CopyFields_words(_, _, _)
CopyFields_words(reg, mtp, i) ==
    IF i > Len(FIELD_SPECS) THEN mtp
    ELSE LET spec == FIELD_SPECS[i]
             reg_val == get_reg_field(reg, spec)
             next == IF spec.reg_addr # None /\ spec.mtp_addr <= 14 /\ reg_val # None
                     THEN DictSet(mtp, spec.mtp_addr, DictGet(reg, spec.reg_addr))
                     ELSE mtp
         IN  CopyFields_words(reg, next, i + 1)

\* The for loop of _copy_reg_to_mtp from row i on: the MTP dict afterwards.
RECURSIVE CopyFields(_, _, _)
CopyFields(reg, mtp, i) ==
    IF i > Len(FIELD_SPECS) THEN mtp
    ELSE LET spec == FIELD_SPECS[i]
             reg_val == get_reg_field(reg, spec)
             next == IF spec.reg_addr # None /\ spec.mtp_addr <= 14 /\ reg_val # None
                     THEN set_mtp_field(mtp, spec, reg_val).words
                     ELSE mtp
         IN  CopyFields(reg, next, i + 1)

\* A preset that also carries the register fields over to the MTP space.
_on_sensing_mode_selected_sync(mode_name) ==
    /\ MainWindowInput
    /\ IF mode_name \notin DOMAIN _sensing_mode_presets
       THEN UNCHANGED <<fieldVars, tableVars>>
       ELSE /\ reg_words' = ApplyPreset(reg_words, 1, _sensing_mode_presets[mode_name])
            /\ mtp_words' = CopyFields(reg_words', mtp_words, 1)
            /\ reg_table' = RefreshRegTable(reg_words')
            /\ mtp_table' = RefreshMtpTable(mtp_words')
    /\ Ran("_on_sensing_mode_selected", <<>>)
    /\ MtpRunOver
    /\ UNCHANGED <<calls, portVars, window, guiVars, workerVars, queue>>

_on_sensing_mode_selected(mode_name) ==
    /\ MainWindowInput
    /\ IF mode_name \notin DOMAIN _sensing_mode_presets
       THEN UNCHANGED <<fieldVars, tableVars>>
       ELSE /\ reg_words' = ApplyPreset(reg_words, 1, _sensing_mode_presets[mode_name])
            /\ UNCHANGED mtp_words
            /\ reg_table' = RefreshRegTable(reg_words')
            /\ mtp_table' = RefreshMtpTable(mtp_words')
    /\ Ran("_on_sensing_mode_selected", <<>>)
    /\ MtpRunOver
    /\ UNCHANGED <<calls, portVars, window, guiVars, workerVars, queue>>

_copy_reg_to_mtp ==
    /\ MainWindowInput
    /\ mtp_words' = CopyFields(reg_words, mtp_words, 1)
    /\ UNCHANGED reg_words
    /\ reg_table' = RefreshRegTable(reg_words')
    /\ mtp_table' = RefreshMtpTable(mtp_words')
    /\ Ran("_copy_reg_to_mtp", <<>>)
    /\ MtpRunOver
    /\ UNCHANGED <<calls, portVars, window, guiVars, workerVars, queue>>

\* One cell of a table's DEC column as the _collect_buffer_words_* read it.
CollectWord(txt) ==
    LET r == ParseInt10(txt)
    IN  IF r.ok THEN BitAnd(r.val, 65535) ELSE 0

_collect_buffer_words_from_reg_table == [i \in 1..8 |-> CollectWord(reg_table[i])]

_collect_buffer_words_from_mtp_table(start_row, count) ==
    LET last == IF start_row + count < 16 THEN start_row + count ELSE 16
    IN  [i \in 1..(last - start_row) |-> CollectWord(mtp_table[start_row + i])]

\* The writes of a programming run, numbered in program order: 0 the mode
\* command, 2k-1 and 2k the field and the accept of word k, 17 the commit.
\* A run is tried with no failing write and with one of these failing.
FailPoints == {0, 1, 17}

FailSets == {{}} \cup {{i} : i \in FailPoints}

\* The for loop of _send_memory_sequence from word k on.
RECURSIVE SendWords(_, _, _, _)
SendWords(io, words, k, fails) ==
    IF k > Len(words) THEN io
    ELSE LET io1 == send_text(io, Format5d(words[k]), (2 * k - 1) \in fails)
             io2 == send_text(io1, <<"y">>, (2 * k) \in fails)
         IN  SendWords(io2, words, k + 1, fails)

\* A loader sequence that ends with the firmware's 'a' (accept all).
_send_memory_sequence_a(io, words, command, fails) ==
    send_text(SendWords(send_cmd(io, <<command>>, 0 \in fails), words, 1, fails),
              <<"a">>, FALSE)

\* len(words) is 8 at both callers: the ValueError is never raised.
_send_memory_sequence(io, words, command, fails) ==
    SendWords(send_cmd(io, <<command>>, 0 \in fails), words, 1, fails)

program_registers(fails) ==
    /\ MainWindowInput
    /\ prog_reg_btn
    /\ LET w8  == _collect_buffer_words_from_reg_table
           io0 == [sent |-> <<>>, queue |-> queue]
           io1 == _send_memory_sequence(io0, w8, "W", fails)
       IN  Wrote("program_registers", send_cmd(io1, <<"S">>, 17 \in fails))
    /\ MtpRunOver
    /\ UNCHANGED <<fieldVars, calls, portVars, window, guiVars, tableVars, workerVars>>

\* program_mtp up to its first prompt, with the unsafe-content check left out.
program_mtp_nowarn ==
    /\ MainWindowInput
    /\ prog_mtp_btn
    /\ words8' = _collect_buffer_words_from_mtp_table(0, 8)
    /\ answered' = {}
    /\ dialog' = "confirm"
    /\ Ran("program_mtp", <<>>)
    /\ UNCHANGED <<fieldVars, calls, portVars, window, guiVars, tableVars, workerVars, queue>>

\* program_mtp up to its first prompt: the unsafe-content warning when word 6
\* (0x0C) is not 0, the confirmation otherwise.
program_mtp ==
    /\ MainWindowInput
    /\ prog_mtp_btn
    /\ words8' = _collect_buffer_words_from_mtp_table(0, 8)
    /\ answered' = {}
    /\ dialog' = IF words8'[7] # 0 THEN "unsafe" ELSE "confirm"
    /\ Ran("program_mtp", <<>>)
    /\ UNCHANGED <<fieldVars, calls, portVars, window, guiVars, tableVars, workerVars, queue>>

\* program_mtp from the answer to its open prompt on.
program_mtp_answer(yes, fails) ==
    /\ dialog # "none"
    /\ IF ~yes
       THEN /\ dialog' = "none"
            /\ UNCHANGED <<words8, answered, queue>>
            /\ Ran("program_mtp", <<>>)
       ELSE IF dialog = "unsafe"
       THEN /\ dialog' = "confirm"
            /\ answered' = answered \cup {"unsafe"}
            /\ UNCHANGED <<words8, queue>>
            /\ Ran("program_mtp", <<>>)
       ELSE /\ dialog' = "none"
            /\ answered' = answered \cup {"confirm"}
            /\ UNCHANGED words8
            /\ LET io0 == [sent |-> <<>>, queue |-> queue]
                   io1 == _send_memory_sequence(io0, words8, "E", fails)
               IN  Wrote("program_mtp", send_cmd(io1, <<"P">>, 17 \in fails))
    /\ UNCHANGED <<fieldVars, calls, portVars, window, guiVars, tableVars, workerVars>>

\* lock_mtp: its body is commented out.
lock_mtp ==
    /\ MainWindowInput
    /\ actions_enabled
    /\ Ran("lock_mtp", <<>>)
    /\ MtpRunOver
    /\ UNCHANGED <<fieldVars, calls, portVars, window, guiVars, tableVars, workerVars, queue>>

\* closeEvent: worker.close(), then the window closes and the application ends.
closeEvent ==
    /\ MainWindowInput
    /\ close
    /\ window' = "closed"
    /\ Ran("closeEvent", <<>>)
    /\ MtpRunOver
    /\ UNCHANGED <<fieldVars, calls, portVars, guiVars, tableVars>>

Next ==
    \/ toggle_connect_no_port
    \/ \E can_open \in BOOLEAN : toggle_connect(can_open)
    \/ \E c \in {"I", "M"} : \E fail \in BOOLEAN : command_button(c, fail)
    \/ \E fail \in BOOLEAN : _read_registers(fail)
    \/ \E fail \in BOOLEAN : _read_mtp(fail)
    \/ \E fails \in FailSets : program_registers(fails)
    \/ program_mtp
    \/ \E yes \in BOOLEAN : \E fails \in FailSets : program_mtp_answer(yes, fails)
    \/ lock_mtp
    \/ \E cell \in EditCells : \E txt \in EditTexts :
           on_decoded_cell_changed(cell[1], cell[2], txt)
    \/ on_conn_state
    \/ on_line_rx
    \/ \E chunk \in Chunks : run(chunk) /\ UNCHANGED rd
    \/ run_read_fails
    \/ closeEvent

Spec == Init /\ [][Next]_vars

-----------------------------------------------------------------------------
(* Editing session: the handlers that change the two dicts (line delivery, *)
(* cell edits, presets, copy) with connect, disconnect and reconnect.      *)

\* The line the device answers with: two register words, then the MTP word
\* at 0x0C, a word of the read-only area and a word with bits outside its
\* fields.
EditChunks == {
    <<"2", "0", " ", "1", "2", "3", "4", " ", "2", "6", " ", "6", "3", " ",
      "0", "C", " ", "2", " ", "1", "A", " ", "5", " ", "0", "6", " ", "F", "F", "C", "0", "\n">> }

\* The cells edited: AXIS_CH1 in REG_DEC, DIS_DIAG in REG_DEC (no register
\* address), MEMLOCK in MTP_DEC, CHIP_ID1 in MTP_DEC (read-only area).
EditSessionCells == {<<9, 1>>, <<14, 1>>, <<15, 2>>, <<18, 2>>}

NextEdit ==
    \/ toggle_connect(TRUE)
    \/ \E cell \in EditSessionCells :
           on_decoded_cell_changed(cell[1], cell[2], <<"1">>)
    \/ \E mode_name \in PresetModes : _on_sensing_mode_selected(mode_name)
    \/ _copy_reg_to_mtp
    \/ on_conn_state
    \/ on_line_rx
    \/ \E chunk \in EditChunks : run(chunk) /\ UNCHANGED rd

SpecEdit == Init /\ [][NextEdit]_vars

-----------------------------------------------------------------------------
(* Stream harness: the port receives a drawn byte stream, which the read   *)
(* loop reads in chunks of any size, empty reads included, while the user  *)
(* connects and disconnects and the queued signals are delivered.          *)

\* Bytes a stream is made of, and the longest stream drawn.
StreamBytes == {"7", "\r", "\n"}

MaxStream == 4

Streams == UNION {[1..n -> StreamBytes] : n \in 0..MaxStream}

InitStream ==
    /\ reg_words = EmptyDict
    /\ mtp_words = EmptyDict
    /\ calls = <<>>
    /\ stream \in Streams
    /\ InitSession

\* One iteration of run()'s loop whose read returns the next n bytes.
ReadStream(n) ==
    /\ rd[2] + n <= Len(stream)
    /\ run(SubSeq(stream, rd[2] + 1, rd[2] + n))
    /\ rd' = <<rd[2], rd[2] + n>>

NextStream ==
    \/ \E can_open \in BOOLEAN : toggle_connect(can_open)
    \/ on_conn_state
    \/ on_line_rx
    \/ \E n \in 0..MaxStream : ReadStream(n)
    \/ run_read_fails

SpecStream == InitStream /\ [][NextStream]_vars

-----------------------------------------------------------------------------
(* Stop harness: close() taken apart into the stop request, the loop's own  *)
(* exit and the rest of close() after wait(), over a stream of drawn bytes. *)

\* close() up to wait(): the stop request is set and the window's thread
\* blocks in wait() when the loop is running.
close_request ==
    /\ MainWindowInput
    /\ connect_btn # "Connect"
    /\ _running' = FALSE
    /\ window' = "waiting"
    /\ Ran("toggle_connect", <<>>)
    /\ MtpRunOver
    /\ UNCHANGED <<fieldVars, calls, portVars, guiVars, tableVars, _ser, thread, buf, queue>>

\* A loop that leaves only when a read has returned bytes: a port opened
\* without a timeout.
run_exit_blocking ==
    /\ thread = "running"
    /\ ~_running
    /\ rd[2] < Len(stream)
    /\ thread' = "stopped"
    /\ buf' = <<>>
    /\ Ran("run", <<>>)
    /\ MtpLocals
    /\ UNCHANGED <<fieldVars, calls, portVars, window, guiVars, tableVars, _ser, _running,
                   queue>>

\* run()'s while test once _running is false: the read in progress has
\* returned within its timeout, with bytes or without, and the loop ends.
run_exit ==
    /\ thread = "running"
    /\ ~_running
    /\ thread' = "stopped"
    /\ buf' = <<>>
    /\ Ran("run", <<>>)
    /\ MtpLocals
    /\ UNCHANGED <<fieldVars, calls, portVars, window, guiVars, tableVars, _ser, _running,
                   queue>>

\* close() after wait(): the loop has ended, the port is closed and
\* Disconnected emitted; toggle_connect returns to the event loop.
close_finish ==
    /\ window = "waiting"
    /\ thread # "running"
    /\ Len(queue) < MaxQueue
    /\ _ser' = NoSerial
    /\ queue' = Append(queue, ConnEv(FALSE, "Disconnected"))
    /\ window' = "open"
    /\ Ran("toggle_connect", <<>>)
    /\ MtpLocals
    /\ UNCHANGED <<fieldVars, calls, portVars, guiVars, tableVars, _running, thread, buf>>

NextStop ==
    \/ connect_btn = "Connect" /\ toggle_connect(TRUE)
    \/ close_request
    \/ run_exit
    \/ close_finish
    \/ on_conn_state
    \/ on_line_rx
    \/ \E n \in 0..MaxStream : ReadStream(n)
    \/ run_read_fails

\* The loop's thread is scheduled: a step it can take for good, it takes.
SpecStop == InitStream /\ [][NextStop]_vars /\ WF_vars(run_exit)

-----------------------------------------------------------------------------
(* Field-map harness: the field functions applied to drawn inputs.         *)
(* Both spaces start from a drawn dict; one call is made on any field with *)
(* any drawn value, then a second call on a field of the same word.        *)

\* Words a space starts with.
WordSamples == {65535, 42435}

\* Values at and above 2^width that a write is tried with, besides 0..2^width-1.
MaxOver == 1

RegAddrs == {32 + 2 * i : i \in 0..7}

MtpAddrs == {2 * i : i \in 0..15}

InitSpaces(addrs) ==
    {EmptyDict} \cup {[a \in addrs |-> w] : w \in WordSamples}

InRange(row) == 0..(Pow2(FIELD_SPECS[row].width) - 1)

OverRange(row) ==
    {Pow2(FIELD_SPECS[row].width) + k : k \in 0..MaxOver}
        \cup {65536 + Pow2(FIELD_SPECS[row].width) - 1 + k : k \in 0..MaxOver}

Call(op, row, value, ok, out) ==
    [op |-> op, row |-> row, value |-> value, ok |-> ok, out |-> out]

IsSet(op) == op \in {"set_reg_field", "set_mtp_field"}

\* The address a call's field has in the space the call works on.
CallAddr(op, row) ==
    IF op \in {"set_reg_field", "get_reg_field"}
    THEN FIELD_SPECS[row].reg_addr ELSE FIELD_SPECS[row].mtp_addr

CallSpace(op) ==
    IF op \in {"set_reg_field", "get_reg_field"} THEN "reg" ELSE "mtp"

\* The first call may be any; the second one follows a successful write and
\* works on the same word: a read of any of its fields, or a write of another
\* of its fields.
MayCall(op, row) ==
    \/ calls = <<>>
    \/ /\ Len(calls) = 1
       /\ IsSet(calls[1].op)
       /\ calls[1].ok
       /\ CallSpace(op) = CallSpace(calls[1].op)
       /\ CallAddr(op, row) = CallAddr(calls[1].op, calls[1].row)
       /\ IsSet(op) => row # calls[1].row

CallValues(row) ==
    IF calls = <<>> THEN InRange(row) \cup OverRange(row) ELSE InRange(row)

CallSetRegField(row, value) ==
    /\ LET r == set_reg_field(reg_words, FIELD_SPECS[row], value)
       IN  /\ reg_words' = r.words
           /\ calls' = Append(calls, Call("set_reg_field", row, value, r.ok, None))
    /\ UNCHANGED <<mtp_words, stream, sessionVars>>

CallSetMtpField(row, value) ==
    /\ LET r == set_mtp_field(mtp_words, FIELD_SPECS[row], value)
       IN  /\ mtp_words' = r.words
           /\ calls' = Append(calls, Call("set_mtp_field", row, value, r.ok, None))
    /\ UNCHANGED <<reg_words, stream, sessionVars>>

CallGetRegField(row) ==
    /\ calls' = Append(calls, Call("get_reg_field", row, None, TRUE,
                                   get_reg_field(reg_words, FIELD_SPECS[row])))
    /\ UNCHANGED <<fieldVars, stream, sessionVars>>

CallGetMtpField(row) ==
    /\ calls' = Append(calls, Call("get_mtp_field", row, None, TRUE,
                                   get_mtp_field(mtp_words, FIELD_SPECS[row])))
    /\ UNCHANGED <<fieldVars, stream, sessionVars>>

InitField ==
    /\ reg_words \in InitSpaces(RegAddrs)
    /\ mtp_words \in InitSpaces(MtpAddrs)
    /\ calls = <<>>
    /\ stream = <<>>
    /\ InitSession

NextField ==
    \/ \E row \in Rows :
        /\ MayCall("set_reg_field", row)
        /\ \E value \in CallValues(row) : CallSetRegField(row, value)
    \/ \E row \in Rows :
        /\ MayCall("set_mtp_field", row)
        /\ \E value \in CallValues(row) : CallSetMtpField(row, value)
    \/ \E row \in Rows : MayCall("get_reg_field", row) /\ CallGetRegField(row)
    \/ \E row \in Rows : MayCall("get_mtp_field", row) /\ CallGetMtpField(row)

SpecField == InitField /\ [][NextField]_vars

-----------------------------------------------------------------------------
(* Field-map properties, checked under SpecField *)

\* The dict a call works on, as it is now.
SpaceNow(op) == IF CallSpace(op) = "reg" THEN reg_words ELSE mtp_words

\* The field of call c read back from the current state.
ReadBack(c) == get_field_at(SpaceNow(c.op), CallAddr(c.op, c.row), FIELD_SPECS[c.row])

\* The bits of a 16-bit word that belong to the field.
FieldBits(spec) ==
    Shl(Shl(Shl(1, spec.width) - 1, spec.lsb), IF spec.byte_sel = "MSB" THEN 8 ELSE 0)

\* The step makes one more call, a write.
WriteStep == Len(calls') = Len(calls) + 1 /\ IsSet(calls'[Len(calls')].op)

\* C1: a field read right after a successful write of an in-range value v
\* returns exactly v, in either space, whatever word was there before.
C1_RoundTrip ==
    \A i \in 1..Len(calls) :
        LET c == calls[i]
        IN  (IsSet(c.op) /\ c.ok /\ c.value \in InRange(c.row)) =>
                /\ i = Len(calls) => ReadBack(c) = c.value
                /\ (i < Len(calls) /\ ~IsSet(calls[i + 1].op) /\ calls[i + 1].row = c.row)
                       => calls[i + 1].out = c.value

C1_Witness ==
    /\ Len(calls) = 2
    /\ calls[1] = Call("set_reg_field", 2, 21, TRUE, None)
    /\ calls[2] = Call("get_reg_field", 2, None, TRUE, 21)
    /\ 32 \in DOMAIN reg_words
    /\ reg_words[32] = 65455

\* C2: a successful write changes only the field's bits of the word at the
\* field's address; the other bits of that word, the words at all other
\* addresses of the space, and the other space keep their values.
C2_WriteFrame ==
    [][ (WriteStep /\ calls'[Len(calls')].ok) =>
          LET c    == calls'[Len(calls')]
              addr == CallAddr(c.op, c.row)
              old  == IF CallSpace(c.op) = "reg" THEN reg_words ELSE mtp_words
              new  == IF CallSpace(c.op) = "reg" THEN reg_words' ELSE mtp_words'
          IN  /\ DOMAIN new = DOMAIN old \cup {addr}
              /\ \A a \in DOMAIN old : a # addr => new[a] = old[a]
              /\ BitAndNot(new[addr], FieldBits(FIELD_SPECS[c.row]))
                     = BitAndNot(DictGet(old, addr), FieldBits(FIELD_SPECS[c.row]))
              /\ CallSpace(c.op) = "reg" => mtp_words' = mtp_words
              /\ CallSpace(c.op) = "mtp" => reg_words' = reg_words ]_vars

C2_Witness ==
    /\ Len(calls) = 1
    /\ calls[1] = Call("set_mtp_field", 17, 9, TRUE, None)
    /\ DOMAIN mtp_words = MtpAddrs
    /\ mtp_words[20] = 38339
    /\ mtp_words[18] = 42435

\* Two distinct fields packed in the same byte of the same word.
SameByte(r1, r2, space) ==
    /\ r1 # r2
    /\ FIELD_SPECS[r1].byte_sel = FIELD_SPECS[r2].byte_sel
    /\ IF space = "reg"
       THEN /\ FIELD_SPECS[r1].reg_addr # None
            /\ FIELD_SPECS[r1].reg_addr = FIELD_SPECS[r2].reg_addr
       ELSE FIELD_SPECS[r1].mtp_addr = FIELD_SPECS[r2].mtp_addr

\* C3: no two fields of the table that share a byte overlap in bit range
\* (the table is constant: looked at once, before the first call), and after writing two such fields one after the other, in either order,
\* with in-range values, both read back the value written.
C3_Aliasing ==
    /\ calls = <<>> =>
          \A r1, r2 \in Rows : \A space \in {"reg", "mtp"} :
              SameByte(r1, r2, space) =>
                  BitAnd(FieldBits(FIELD_SPECS[r1]), FieldBits(FIELD_SPECS[r2])) = 0
    /\ (/\ Len(calls) = 2
        /\ IsSet(calls[1].op) /\ IsSet(calls[2].op)
        /\ calls[1].ok /\ calls[2].ok
        /\ SameByte(calls[1].row, calls[2].row, CallSpace(calls[1].op))
        /\ calls[1].value \in InRange(calls[1].row)
        /\ calls[2].value \in InRange(calls[2].row))
       => /\ ReadBack(calls[1]) = calls[1].value
          /\ ReadBack(calls[2]) = calls[2].value

C3_Witness ==
    /\ Len(calls) = 2
    /\ calls[1] = Call("set_reg_field", 11, 1, TRUE, None)
    /\ calls[2] = Call("set_reg_field", 9, 2, TRUE, None)
    /\ get_reg_field(reg_words, FIELD_SPECS[11]) = 1
    /\ get_reg_field(reg_words, FIELD_SPECS[9]) = 2
    /\ get_reg_field(reg_words, FIELD_SPECS[10]) = 3

\* C4: on a field with no register address, get_reg_field returns None and
\* set_reg_field returns False and leaves both spaces as they were.
C4_AbsentAddress ==
    [][ (/\ Len(calls') = Len(calls) + 1
         /\ CallSpace(calls'[Len(calls')].op) = "reg"
         /\ FIELD_SPECS[calls'[Len(calls')].row].reg_addr = None) =>
          LET c == calls'[Len(calls')]
          IN  /\ IsSet(c.op) => ~c.ok
              /\ ~IsSet(c.op) => c.out = None
              /\ reg_words' = reg_words
              /\ mtp_words' = mtp_words ]_vars

C4_Witness ==
    /\ Len(calls) = 1
    /\ calls[1] = Call("set_reg_field", 14, 1, FALSE, None)
    /\ DOMAIN mtp_words = MtpAddrs
    /\ mtp_words[12] = 65535
    /\ reg_words = EmptyDict

\* C5: a write of any non-negative value to a field that has an address in
\* the written space is accepted; the field then reads value mod 2^width and
\* the bits of the word outside the field are as before.
C5_Truncation ==
    [][ (WriteStep /\ CallAddr(calls'[Len(calls')].op, calls'[Len(calls')].row) # None) =>
          LET c    == calls'[Len(calls')]
              spec == FIELD_SPECS[c.row]
              addr == CallAddr(c.op, c.row)
              old  == IF CallSpace(c.op) = "reg" THEN reg_words ELSE mtp_words
              new  == IF CallSpace(c.op) = "reg" THEN reg_words' ELSE mtp_words'
          IN  /\ c.ok
              /\ get_field_at(new, addr, spec) = c.value % Pow2(spec.width)
              /\ BitAndNot(DictGet(new, addr), FieldBits(spec))
                     = BitAndNot(DictGet(old, addr), FieldBits(spec)) ]_vars

C5_Witness ==
    /\ Len(calls) = 1
    /\ calls[1] = Call("set_mtp_field", 15, 3, TRUE, None)
    /\ DOMAIN mtp_words = {12}
    /\ mtp_words[12] = 1

-----------------------------------------------------------------------------
(* Session properties, checked under Spec *)

\* The latest step was a programming run that wrote bytes.
RunWrote(name) == handler = name /\ sent # <<>>

\* C6: a programming run writes bytes only while the session is Connected
\* and the read flag of the programmed space is true.
C6_Gating ==
    /\ RunWrote("program_registers") => (_connected /\ _reg_read)
    /\ RunWrote("program_mtp") => (_connected /\ _mtp_read)

\* The bytes of a run without a leading mode command and a trailing commit.
RunBody(bytes) ==
    LET from == IF bytes # <<>> /\ bytes[1] \in {"W", "E"} THEN 2 ELSE 1
        to   == IF bytes # <<>> /\ bytes[Len(bytes)] \in {"S", "P"}
                THEN Len(bytes) - 1 ELSE Len(bytes)
    IN  SubSeq(bytes, from, to)

\* f is the decimal numeral of w, right-justified in 5 columns with spaces.
IsField(f, w) ==
    /\ Len(f) = 5
    /\ \E p \in 0..4 :
          /\ \A i \in 1..p : f[i] = " "
          /\ \A i \in (p + 1)..5 : f[i] \in Digits
          /\ p < 4 => f[p + 1] # "0"
          /\ IntOf(SubSeq(f, p + 1, 5), 10) = w

\* body is eight fields of the words, each followed by one y, and no more.
IsLoaderBody(body, words) ==
    /\ Len(body) = 48
    /\ \A k \in 0..7 :
          /\ IsField(SubSeq(body, 6 * k + 1, 6 * k + 5), words[k + 1])
          /\ body[6 * k + 6] = "y"

\* The words a register run is to send: the register space at 0x20..0x2E.
RegWords8 == [k \in 1..8 |-> DictGet(reg_words, 32 + 2 * (k - 1))]

\* C7: the bytes a programming run writes between the mode command and the
\* commit command are, for the 8 words in order, a 5-character right-justified
\* space-padded decimal field and one y: 48 bytes, with nothing after them.
C7_SequenceEncoding ==
    /\ RunWrote("program_registers") => IsLoaderBody(RunBody(sent), RegWords8)
    /\ RunWrote("program_mtp") => IsLoaderBody(RunBody(sent), words8)

C7_Witness ==
    /\ handler = "program_registers"
    /\ Len(sent) = 50
    /\ sent[1] = "W"
    /\ SubSeq(sent, 2, 7) = <<" ", "4", "6", "6", "0", "y">>
    /\ SubSeq(sent, 8, 13) = <<"6", "5", "5", "3", "5", "y">>
    /\ SubSeq(sent, 14, 19) = <<" ", " ", " ", " ", "7", "y">>
    /\ SubSeq(sent, 20, 25) = <<" ", " ", " ", "9", "9", "y">>
    /\ SubSeq(sent, 26, 31) = <<" ", " ", "2", "5", "6", "y">>
    /\ SubSeq(sent, 44, 49) = <<" ", " ", " ", " ", "0", "y">>
    /\ sent[50] = "S"

\* C8: the bytes of every programming run are the mode command, the eight
\* value/accept pairs, then the commit command, W with S and E with P; values
\* and accepts are never written without the mode command before them.
C8_ProtocolOrder ==
    /\ RunWrote("program_registers") =>
          /\ Len(sent) = 50 /\ sent[1] = "W" /\ sent[50] = "S"
          /\ IsLoaderBody(SubSeq(sent, 2, 49), RegWords8)
    /\ RunWrote("program_mtp") =>
          /\ Len(sent) = 50 /\ sent[1] = "E" /\ sent[50] = "P"
          /\ IsLoaderBody(SubSeq(sent, 2, 49), words8)

\* C9: program_mtp writes bytes only in the step in which the user confirms
\* the MTP write, and when word 6 (address 0x0C) of the words to program is
\* not 0 only after the user also confirmed the unsafe-content warning; a
\* declined prompt ends program_mtp with nothing written, both spaces, the
\* worker and the signal queue as they were.
C9_MtpGuardrails ==
    [][ /\ ((dialog # "none" \/ handler' = "program_mtp") /\ sent' # <<>>) =>
              /\ dialog = "confirm"
              /\ "confirm" \in answered'
              /\ words8[7] # 0 => "unsafe" \in answered
              /\ SubSeq(RunBody(sent'), 37, 41) # <<" ", " ", " ", " ", "0">>
                    => "unsafe" \in answered
        /\ (dialog # "none" /\ dialog' = "none" /\ "confirm" \notin answered') =>
              /\ sent' = <<>>
              /\ UNCHANGED <<fieldVars, workerVars, queue>> ]_vars

C9_Witness ==
    /\ RunWrote("program_mtp")
    /\ dialog = "none"
    /\ answered = {"unsafe", "confirm"}
    /\ words8[7] = 1
    /\ SubSeq(RunBody(sent), 37, 42) = <<" ", " ", " ", " ", "1", "y">>

\* All of s[i..j-1] is in set, and the stretch is not empty.
Stretch(s, i, j, set) == i < j /\ \A n \in i..(j - 1) : s[n] \in set

\* s holds o, u, t (either case) and the digit c at position i.
OutAt(s, i, c) ==
    /\ i + 3 <= Len(s)
    /\ s[i] \in {"O", "o"} /\ s[i + 1] \in {"U", "u"} /\ s[i + 2] \in {"T", "t"}
    /\ s[i + 3] = c

\* The line holds OUT1 <digits> OUT2 <digits>, in either case, somewhere.
IsMeasurementLine(s) ==
    \E i \in 1..Len(s) :
        /\ OutAt(s, i, "1")
        /\ \E b \in (i + 5)..Len(s) :
            /\ Stretch(s, i + 4, b, Whitespace)
            /\ \E c \in (b + 1)..Len(s) :
                /\ Stretch(s, b, c, Digits)
                /\ \E d \in (c + 1)..Len(s) :
                    /\ Stretch(s, c, d, Whitespace)
                    /\ OutAt(s, d, "2")
                    /\ \E f \in (d + 5)..Len(s) :
                        /\ Stretch(s, d + 4, f, Whitespace)
                        /\ s[f] \in Digits

\* The line is the identification token, give or take surrounding whitespace.
IsIdentifyLine(s) ==
    \E i \in 1..Len(s) :
        /\ i + 4 <= Len(s)
        /\ SubSeq(s, i, i + 4) = <<"9", "0", "3", "8", "1">>
        /\ \A n \in 1..Len(s) : (n < i \/ n > i + 4) => s[n] \in Whitespace

\* C10: delivering a line that is the identification token or holds a
\* measurement changes no word of either space, also when the line holds
\* text that matches the hex-pair pattern.
C10_ClassificationOrder ==
    [][ (/\ queue # <<>>
         /\ Head(queue).sig = "line_rx"
         /\ queue' = Tail(queue)
         /\ IsIdentifyLine(Head(queue).line) \/ IsMeasurementLine(Head(queue).line)) =>
          UNCHANGED fieldVars ]_vars

C10_Witness ==
    /\ handler = "on_line_rx"
    /\ delivered = <<"O", "U", "T", "1", " ", "1", "2", "0", " ",
                     "O", "U", "T", "2", " ", "3", "4", "0">>
    /\ parse_hex_pairs_line(delivered) = <<<<1, 288>>, <<2, 832>>>>
    /\ 12 \in DOMAIN mtp_words
    /\ 1 \notin DOMAIN mtp_words
    /\ 2 \notin DOMAIN mtp_words

\* The step delivers the line at the head of the queue to on_line_rx.
LineDelivery ==
    /\ queue # <<>>
    /\ Head(queue).sig = "line_rx"
    /\ queue' = Tail(queue)

\* The line is handled as a line of hex pairs.
IsHexPairLine(s) == ~IsIdentifyLine(s) /\ ~IsMeasurementLine(s)

\* The entry of a space at address a is the same before and after the step.
SameEntry(before, after, a) ==
    /\ a \in DOMAIN after <=> a \in DOMAIN before
    /\ a \in DOMAIN before => after[a] = before[a]

\* After the step the space holds at a the low 16 bits of w.
Stored(after, a, w) == a \in DOMAIN after /\ after[a] = w % 65536

\* C11: when a hex-pair line is delivered, every address of its pairs at or
\* above 0x20 holds in the register space the word of the last pair with that
\* address, and its MTP entry is as before; every address below 0x20 holds it
\* in the MTP space, and its register entry is as before; every other address
\* is as before in both spaces.
C11_AddressRouting ==
    [][ (LineDelivery /\ IsHexPairLine(Head(queue).line)) =>
          LET pairs == parse_hex_pairs_line(Head(queue).line)
              addrs == {pairs[i][1] : i \in 1..Len(pairs)}
              last(a) == CHOOSE i \in 1..Len(pairs) :
                            /\ pairs[i][1] = a
                            /\ \A j \in (i + 1)..Len(pairs) : pairs[j][1] # a
          IN  /\ \A a \in addrs :
                    IF a >= 32
                    THEN /\ Stored(reg_words', a, pairs[last(a)][2])
                         /\ SameEntry(mtp_words, mtp_words', a)
                    ELSE /\ Stored(mtp_words', a, pairs[last(a)][2])
                         /\ SameEntry(reg_words, reg_words', a)
              /\ \A a \in (DOMAIN reg_words \cup DOMAIN reg_words') \ addrs :
                    SameEntry(reg_words, reg_words', a)
              /\ \A a \in (DOMAIN mtp_words \cup DOMAIN mtp_words') \ addrs :
                    SameEntry(mtp_words, mtp_words', a) ]_vars

C11_Witness ==
    /\ handler = "on_line_rx"
    /\ delivered = <<"0", "C", " ", "0", " ", "1", "0", "0", "2", "0", " ", "5", " ",
                     "0", "c", " ", "1">>
    /\ parse_hex_pairs_line(delivered) = <<<<12, 0>>, <<65568, 5>>, <<12, 1>>>>
    /\ 32 \in DOMAIN reg_words
    /\ 12 \notin DOMAIN reg_words
    /\ mtp_words[12] = 1
    /\ 65568 \notin DOMAIN mtp_words
    /\ reg_words[65568] = 5

\* C12: every key and every value of reg_words and of mtp_words lies in
\* [0, 0xFFFF].
C12_SixteenBit ==
    /\ \A a \in DOMAIN reg_words : a \in 0..65535 /\ reg_words[a] \in 0..65535
    /\ \A a \in DOMAIN mtp_words : a \in 0..65535 /\ mtp_words[a] \in 0..65535

-----------------------------------------------------------------------------
(* Read-loop properties, checked under SpecStream *)

\* The positions of the newlines of s.
Newlines(s) == {i \in 1..Len(s) : s[i] = "\n"}

\* The position of the newline before position e of s, 0 if there is none.
NewlineBefore(s, e) ==
    LET before == {i \in Newlines(s) : i < e}
    IN  IF before = {} THEN 0 ELSE CHOOSE i \in before : \A j \in before : j <= i

\* The line of s that the newline at e terminates, less one trailing \r.
LineEndingAt(s, e) ==
    LET raw == SubSeq(s, NewlineBefore(s, e) + 1, e - 1)
    IN  IF raw # <<>> /\ raw[Len(raw)] = "\r" THEN SubSeq(raw, 1, Len(raw) - 1) ELSE raw

\* The newline-terminated lines of s, in stream order.
Terminated(s) ==
    [k \in 1..Cardinality(Newlines(s)) |->
        LineEndingAt(s, CHOOSE e \in Newlines(s) :
                            Cardinality({i \in Newlines(s) : i <= e}) = k)]

\* The bytes of s after its last newline.
HeldBack(s) == SubSeq(s, NewlineBefore(s, Len(s) + 1) + 1, Len(s))

\* The step emits a conn_state: an open, a close or a failed read or write.
ConnEmitted ==
    /\ Len(queue') = Len(queue) + 1
    /\ queue'[Len(queue')].sig = "conn_state"

\* C13: a read of the loop emits, in stream order, the newline-terminated
\* lines of what was held back followed by the bytes read, each less one
\* trailing carriage-return, and holds back what follows the last newline;
\* between reads of one session the held-back bytes stay and no line is
\* emitted. So the lines emitted do not depend on how the stream is split.
C13_LineReassembly ==
    [][ /\ rd'[2] > rd[2] =>
              LET all == buf \o SubSeq(stream, rd[2] + 1, rd'[2])
              IN  /\ queue' = queue \o [k \in 1..Len(Terminated(all)) |->
                                           LineEv(Terminated(all)[k])]
                  /\ buf' = HeldBack(all)
        /\ (rd'[2] = rd[2] /\ ~ConnEmitted) =>
              /\ buf' = buf
              /\ queue' = queue \/ (queue # <<>> /\ queue' = Tail(queue)) ]_vars

C13_Witness ==
    /\ stream = <<"7", "7", "\r", "\n">>
    /\ rd = <<1, 4>>
    /\ buf = <<>>
    /\ queue # <<>>
    /\ queue[Len(queue)] = LineEv(<<"7", "7">>)

\* The step is an open() that succeeded.
Opened == ConnEmitted /\ queue'[Len(queue')].ok

\* C20: the read loop an open() starts holds no bytes, whatever the loop of
\* the session before held back, and no held-back bytes outlive their loop;
\* so the first line of a session is made of bytes read in that session only.
C20_CleanBufferOnReopen ==
    [][ /\ Opened => (thread' = "running" /\ buf' = <<>>)
        /\ thread' # "running" => buf' = <<>>
        /\ (Opened /\ rd[2] < Len(stream)) =>
              \A n \in 1..(Len(stream) - rd[2]) :
                  SplitLines(buf' \o SubSeq(stream, rd[2] + 1, rd[2] + n)).lines
                      = Terminated(SubSeq(stream, rd[2] + 1, rd[2] + n)) ]_vars

C20_Witness ==
    /\ stream = <<"7", "7", "\n">>
    /\ rd = <<1, 3>>
    /\ thread = "running"
    /\ buf = <<>>
    /\ queue # <<>>
    /\ queue[Len(queue)] = LineEv(<<"7">>)

\* The step emits the conn_state with this message.
Emitted(msg) == ConnEmitted /\ queue'[Len(queue')].msg = msg

\* C15: when close() has returned the loop is not executing; the loop that
\* runs after an open() is one that open() started, holding nothing of a loop
\* before it and reading the port this open() opened; a loop runs only while
\* it is asked to and only on an open port.
C15_CloseStopsLoop ==
    [][ /\ Emitted("Disconnected") => (thread' = "stopped" /\ ~_running')
        /\ Emitted("Connected") =>
              (thread' = "running" /\ buf' = <<>> /\ _ser' = Port /\ _running')
        /\ Emitted("Connect failed") => thread' = "stopped"
        /\ thread' = "running" => (_running' /\ _ser' # NoSerial) ]_vars

C15_Witness ==
    /\ stream # <<>>
    /\ stream[1] = "7"
    /\ rd = <<0, 1>>
    /\ thread = "running"
    /\ buf = <<>>
    /\ queue = <<ConnEv(TRUE, "Connected"), ConnEv(TRUE, "Connected")>>

-----------------------------------------------------------------------------
(* Connection properties, checked under Spec *)

\* The step delivers the conn_state with this message to on_conn_state.
ConnDelivery(msg) ==
    /\ queue # <<>>
    /\ Head(queue).sig = "conn_state"
    /\ Head(queue).msg = msg
    /\ queue' = Tail(queue)

\* C14: while the session is Disconnected both read flags are false, and a
\* space whose read flag is false cannot be programmed: after a disconnect
\* and a reconnect each space has to be read again.
C14_DisconnectResetsReadState ==
    /\ ~_connected => (~_reg_read /\ ~_mtp_read)
    /\ ~_reg_read => ~prog_reg_btn
    /\ ~_mtp_read => ~prog_mtp_btn

C14_Witness ==
    /\ handler = "-"
    /\ ~_connected
    /\ connect_btn = "Connect"
    /\ _ser = NoSerial
    /\ queue = <<>>
    /\ reg_table[1] = <<"4", "6", "6", "0">>
    /\ ~_reg_read
    /\ ~prog_reg_btn

\* C16: a write that fails is reported and the session stays as it is: the
\* worker is untouched by the failing write, and neither the write nor the
\* delivery of its report changes _connected or the read flags.
C16_WriteFailureKeepsSession ==
    [][ /\ Emitted("Write failed") => UNCHANGED <<workerVars, _connected>>
        /\ ConnDelivery("Write failed") =>
              UNCHANGED <<workerVars, _connected, _reg_read, _mtp_read>> ]_vars

\* C17: a read that raises emits one conn_state(False) with the reason and
\* ends the loop; while the loop is ended no line and no further read failure
\* is emitted, and only an open() starts a loop again.
C17_ReadFailureEndsLoop ==
    [][ /\ Emitted("Serial read failed") =>
              /\ thread = "running"
              /\ ~queue'[Len(queue')].ok
              /\ SubSeq(queue', 1, Len(queue)) = queue
              /\ thread' = "stopped"
              /\ ~_running'
        /\ thread = "stopped" =>
              /\ ~Emitted("Serial read failed")
              /\ ~(Len(queue') > Len(queue) /\ queue'[Len(queue')].sig = "line_rx")
              /\ thread' = "running" => Emitted("Connected") ]_vars

C17_Witness ==
    /\ thread = "stopped"
    /\ ~_running
    /\ _ser = Port
    /\ queue = <<>>
    /\ ~_connected
    /\ connect_btn = "Connect"

\* C18: an open() that cannot open the port leaves the worker with no port
\* and no running loop and emits a conn_state(False) with a reason; the
\* session is Disconnected with both read flags false when open() returns and
\* when the report is delivered.
C18_FailedConnect ==
    [][ /\ Emitted("Connect failed") =>
              /\ _ser' = NoSerial
              /\ ~_running'
              /\ thread' = "stopped"
              /\ ~queue'[Len(queue')].ok
              /\ ~_connected' /\ ~_reg_read' /\ ~_mtp_read'
        /\ ConnDelivery("Connect failed") =>
              ~_connected' /\ ~_reg_read' /\ ~_mtp_read' ]_vars

C18_Witness ==
    /\ _ser = NoSerial
    /\ ~_running
    /\ thread = "stopped"
    /\ queue = <<ConnEv(TRUE, "Connected"), ConnEv(FALSE, "Connect failed")>>
    /\ ~_connected

\* The worker holds no port and runs no loop.
WorkerClosed(ser, running, th) == ser = NoSerial /\ ~running /\ th = "stopped"

\* C19: after every close() the worker holds no port and runs no loop; a
\* close() of a worker already in that state, closed before or never opened,
\* changes nothing of it; and the delivery of its report leaves the session
\* Disconnected.
C19_CloseIdempotent ==
    [][ /\ Emitted("Disconnected") =>
              /\ WorkerClosed(_ser', _running', thread')
              /\ WorkerClosed(_ser, _running, thread) => UNCHANGED workerVars
        /\ ConnDelivery("Disconnected") => ~_connected' ]_vars

C19_Witness ==
    /\ WorkerClosed(_ser, _running, thread)
    /\ _connected
    /\ queue = <<ConnEv(FALSE, "Disconnected"), ConnEv(FALSE, "Disconnected")>>

\* The line holds a hex digit, whitespace and a hex digit in a row somewhere.
HoldsHexPair(s) ==
    \E i \in 1..Len(s) : \E j \in (i + 2)..Len(s) :
        s[i] \in HexDigits /\ Stretch(s, i + 1, j, Whitespace) /\ s[j] \in HexDigits

\* The line is neither the identification token nor a measurement and holds
\* no hex pair.
IsInertLine(s) == ~IsIdentifyLine(s) /\ ~IsMeasurementLine(s) /\ ~HoldsHexPair(s)

\* C22: delivering a line that is not the identification token, holds no
\* measurement and holds no hex pair changes no word of either space, leaves
\* the connection state, the read flags and the buttons as they were, and
\* leaves the read loop running with the later lines still queued.
C22_InertLine ==
    [][(LineDelivery /\ IsInertLine(Head(queue).line)) =>
          /\ UNCHANGED <<fieldVars, tableVars, guiVars, workerVars>>
          /\ queue' = Tail(queue)]_vars

\* An inert line has been delivered in a session with both spaces read and
\* both read flags set, the loop runs and the next line waits in the queue.
C22_Witness ==
    /\ handler = "on_line_rx"
    /\ delivered = <<"O", "K">>
    /\ _connected /\ _reg_read /\ _mtp_read
    /\ 32 \in DOMAIN reg_words
    /\ 12 \in DOMAIN mtp_words
    /\ thread = "running"
    /\ queue # <<>>
    /\ Head(queue).sig = "line_rx"

\* C24: a programming run writes bytes for a space only after contents of
\* that space have been received from the device in this connection; as
\* entries are never removed, the space then holds at least one address.
C24_ReadBeforeProgram ==
    /\ RunWrote("program_registers") => DOMAIN reg_words # {}
    /\ RunWrote("program_mtp") => DOMAIN mtp_words # {}

(***************************************************************************)
(* Editing properties, checked under SpecEdit *)

\* The value of the field in a 16-bit word, by arithmetic.
FieldOf(word, spec) ==
    (word \div Shl(1, spec.lsb + (IF spec.byte_sel = "MSB" THEN 8 ELSE 0)))
        % Shl(1, spec.width)

\* The rows the copy carries over: a register address and a customer MTP address.
CopyRows == {i \in 1..Len(FIELD_SPECS) :
                FIELD_SPECS[i].reg_addr # None /\ FIELD_SPECS[i].mtp_addr <= 14}

\* Bit b of the MTP word at addr belongs to a field the copy carries over.
CopiedBit(addr, b) ==
    \E i \in CopyRows :
        /\ FIELD_SPECS[i].mtp_addr = addr
        /\ LET lo == FIELD_SPECS[i].lsb + (IF FIELD_SPECS[i].byte_sel = "MSB" THEN 8 ELSE 0)
           IN  b \in lo..(lo + FIELD_SPECS[i].width - 1)

\* Bit b of a word.
BitOf(word, b) == (word \div Shl(1, b)) % 2

\* C21: a copy gives every field that has a register address and an MTP
\* address of at most 0x0E the value the register space holds for it, and
\* leaves every other bit of the MTP space, every MTP-only field, every
\* address above 0x0E and the whole register space as they were.
C21_CopyRegToMtp ==
    [][handler' = "_copy_reg_to_mtp" =>
        /\ \A i \in CopyRows :
               LET spec == FIELD_SPECS[i]
               IN  /\ spec.mtp_addr \in DOMAIN mtp_words'
                   /\ FieldOf(mtp_words'[spec.mtp_addr], spec)
                        = FieldOf(DictGet(reg_words, spec.reg_addr), spec)
        /\ \A addr \in DOMAIN mtp_words \union DOMAIN mtp_words' :
               /\ (\A i \in CopyRows : FIELD_SPECS[i].mtp_addr # addr)
                      => SameEntry(mtp_words, mtp_words', addr)
               /\ \A b \in 0..15 :
                      ~CopiedBit(addr, b) =>
                          BitOf(DictGet(mtp_words', addr), b)
                              = BitOf(DictGet(mtp_words, addr), b)
        /\ reg_words' = reg_words]_vars

\* A copy has run over a register dump and an MTP word with bits outside the
\* fields: the fields of 0x00 and 0x06 hold the register values, the other
\* bits of 0x06 and the words at 0x0C and 0x1A are as the MTP line left them.
C21_Witness ==
    /\ handler = "_copy_reg_to_mtp"
    /\ DictGet(reg_words, 32) = 4660
    /\ DictGet(reg_words, 38) = 99
    /\ DictGet(mtp_words, 0) = 564
    /\ DictGet(mtp_words, 6) = 65507
    /\ DictGet(mtp_words, 12) = 2
    /\ DictGet(mtp_words, 26) = 5

\* The rows of the table as the module builds it: name, register address,
\* MTP address, byte, first bit, width.
TableAsBuilt == <<
    <<"RG_X", 32, 0, "LSB", 0, 3>>,          <<"FG_X", 32, 0, "LSB", 3, 5>>,
    <<"RG_Y", 34, 2, "LSB", 0, 3>>,          <<"FG_Y", 34, 2, "LSB", 3, 5>>,
    <<"RG_Z", 36, 4, "LSB", 0, 3>>,          <<"FG_Z", 36, 4, "LSB", 3, 5>>,
    <<"VOQ_OUT1", 32, 0, "MSB", 0, 4>>,      <<"VOQ_OUT2", 34, 2, "MSB", 0, 4>>,
    <<"AXIS_CH1", 38, 6, "LSB", 0, 2>>,      <<"AXIS_CH2", 38, 6, "LSB", 2, 2>>,
    <<"PLATEZ", 38, 6, "LSB", 4, 2>>,        <<"TC", 40, 8, "LSB", 0, 5>>,
    <<"FILT", 42, 10, "LSB", 0, 5>>,         <<"DIS_DIAG", None, 12, "LSB", 1, 1>>,
    <<"MEMLOCK", None, 12, "LSB", 0, 1>>,    <<"TC350_DATA", None, 14, "LSB", 0, 4>>,
    <<"TC2000_DATA", None, 20, "MSB", 4, 4>>, <<"CHIP_ID1", None, 26, "LSB", 0, 8>>,
    <<"CHIP_ID2", None, 28, "LSB", 0, 8>>,   <<"CHIP_ID3", None, 30, "LSB", 0, 8>> >>

C25_NoImplicitSync ==
    [][/\ handler' = "_on_sensing_mode_selected" => mtp_words' = mtp_words
       /\ (handler' # "_copy_reg_to_mtp" /\ ~LineDelivery) =>
              (reg_words' = reg_words \/ mtp_words' = mtp_words)
       /\ LineDelivery =>
              LET pairs == parse_hex_pairs_line(Head(queue).line)
                  high == {pairs[i][1] : i \in {n \in 1..Len(pairs) : pairs[n][1] >= 32}}
                  low == {pairs[i][1] : i \in {n \in 1..Len(pairs) : pairs[n][1] < 32}}
              IN  /\ \A a \in (DOMAIN reg_words \cup DOMAIN reg_words') \ high :
                        SameEntry(reg_words, reg_words', a)
                  /\ \A a \in (DOMAIN mtp_words \cup DOMAIN mtp_words') \ low :
                        SameEntry(mtp_words, mtp_words', a)]_vars

\* A preset has rewritten the sensing fields of register 0x26 while the MTP
\* word 0x06 with the same fields is as the device line left it.
C25_Witness ==
    /\ handler = "_on_sensing_mode_selected"
    /\ DictGet(reg_words, 38) = 86
    /\ DictGet(mtp_words, 6) = 65472

\* C26: no step removes an address from reg_words or from mtp_words.
C26_NeverDeleted ==
    [][/\ DOMAIN reg_words \subseteq DOMAIN reg_words'
       /\ DOMAIN mtp_words \subseteq DOMAIN mtp_words']_vars

\* The session is over (Disconnected delivered, port closed, nothing queued)
\* after a line, an edit and a copy: every address they created is there.
C26_Witness ==
    /\ ~_connected
    /\ connect_btn = "Connect"
    /\ _ser = NoSerial
    /\ queue = <<>>
    /\ {32, 38} \subseteq DOMAIN reg_words
    /\ {0, 2, 4, 6, 8, 10, 12, 26} \subseteq DOMAIN mtp_words

\* The step is an edit of a cell, a preset or a copy.
HostEdit ==
    handler' \in {"on_decoded_cell_changed", "_on_sensing_mode_selected", "_copy_reg_to_mtp"}

\* C27: a cell edit, a preset and a copy leave every MTP entry above 0x0E
\* as it was; such an entry changes only in the delivery of a line that
\* carries its address.
C27_ReadOnlyMtpArea ==
    [][\A a \in {n \in DOMAIN mtp_words \cup DOMAIN mtp_words' : n > 14} :
          /\ HostEdit => SameEntry(mtp_words, mtp_words', a)
          /\ ~SameEntry(mtp_words, mtp_words', a) =>
                 /\ LineDelivery
                 /\ \E i \in 1..Len(parse_hex_pairs_line(Head(queue).line)) :
                        parse_hex_pairs_line(Head(queue).line)[i][1] = a]_vars

\* An edit of a cell has just run: the word of CHIP_ID1 at 0x1A is as the
\* device line gave it, and the lock bit at 0x0C has been set by an edit.
C27_Witness ==
    /\ handler = "on_decoded_cell_changed"
    /\ DictGet(mtp_words, 26) = 5
    /\ DictGet(mtp_words, 12) = 3

\* The handlers that write reg_words or mtp_words.
Mutators ==
    {"on_line_rx", "on_decoded_cell_changed", "_on_sensing_mode_selected", "_copy_reg_to_mtp"}

\* Word after differs from word before inside the field of spec only.
OnlyFieldDiffers(before, after, spec) ==
    LET lo == spec.lsb + (IF spec.byte_sel = "MSB" THEN 8 ELSE 0)
    IN  \A b \in 0..15 : b \notin lo..(lo + spec.width - 1) => BitOf(after, b) = BitOf(before, b)

\* C28: the two dicts change only in a step of a handler run by the event
\* loop of the open window (line delivery, cell edit, preset, copy) and never
\* in a step of the read loop; each such step is applied whole to the state
\* the step before left: a line delivery leaves at each address it changes
\* the whole word of one of its pairs, and a cell edit changes one word, in
\* the bits of one field, keeping the bits the step before had put there.
C28_SerializedMutation ==
    [][/\ handler' = "run" => fieldVars' = fieldVars
       /\ fieldVars' # fieldVars => (handler' \in Mutators /\ window = "open")
       /\ LineDelivery =>
              LET pairs == parse_hex_pairs_line(Head(queue).line)
              IN  /\ \A a \in DOMAIN reg_words' :
                        ~SameEntry(reg_words, reg_words', a) =>
                            \E n \in 1..Len(pairs) :
                                pairs[n][1] = a /\ reg_words'[a] = pairs[n][2] % 65536
                  /\ \A a \in DOMAIN mtp_words' :
                        ~SameEntry(mtp_words, mtp_words', a) =>
                            \E n \in 1..Len(pairs) :
                                pairs[n][1] = a /\ mtp_words'[a] = pairs[n][2] % 65536
       /\ handler' = "on_decoded_cell_changed" =>
              \/ fieldVars' = fieldVars
              \/ /\ mtp_words' = mtp_words
                 /\ \E i \in 1..Len(FIELD_SPECS) :
                        /\ FIELD_SPECS[i].reg_addr # None
                        /\ \A a \in DOMAIN reg_words' :
                               \/ SameEntry(reg_words, reg_words', a)
                               \/ /\ a = FIELD_SPECS[i].reg_addr
                                  /\ OnlyFieldDiffers(DictGet(reg_words, a), reg_words'[a],
                                                      FIELD_SPECS[i])
              \/ /\ reg_words' = reg_words
                 /\ \E i \in 1..Len(FIELD_SPECS) :
                        \A a \in DOMAIN mtp_words' :
                            \/ SameEntry(mtp_words, mtp_words', a)
                            \/ /\ a = FIELD_SPECS[i].mtp_addr
                               /\ OnlyFieldDiffers(DictGet(mtp_words, a), mtp_words'[a],
                                                   FIELD_SPECS[i])]_vars

\* A cell edit has been applied on top of a delivered line (0x26 was 0x63,
\* AXIS_CH1 is now 1) while the loop runs and the same line, read again, waits
\* in the queue to be applied after it.
C28_Witness ==
    /\ handler = "on_decoded_cell_changed"
    /\ DictGet(reg_words, 38) = 97
    /\ DictGet(reg_words, 32) = 4660
    /\ thread = "running"
    /\ queue # <<>>
    /\ Head(queue).sig = "line_rx"

(***************************************************************************)
(* Stop properties, checked under SpecStop *)

\* C29: once the stop request is set while the loop runs, the loop
\* eventually ends.
C29_StopObserved == (thread = "running" /\ ~_running) ~> (thread # "running")

\* close() has set the stop request and waits, the loop has not yet seen it,
\* and the port has no more bytes: every read from now on times out empty.
C29_Witness ==
    /\ thread = "running"
    /\ ~_running
    /\ window = "waiting"
    /\ _ser # NoSerial
    /\ stream # <<>>
    /\ rd[2] = Len(stream)

=============================================================================
